---- MODULE Spec2Model ----
(***************************************************************************)
(* Model of src/Analize.py: the VoiceToneAnalyzer class and the Streamlit  *)
(* entry point main().                                                     *)
(*                                                                         *)
(* Pitch samples are modelled as integers (Hz).  Means and k-means         *)
(* centroids are exact rationals, kept as <<numerator, denominator>> with  *)
(* a positive denominator and compared by cross-multiplication, so that a  *)
(* mean lying exactly on a register threshold is representable.            *)
(*                                                                         *)
(* librosa, scikit-learn, scipy and streamlit are libraries outside the    *)
(* repository.  Each call into them is modelled by its documented          *)
(* outcome; where the outcome depends on data the model does not hold      *)
(* (file contents, the random state of k-means++), it is a                 *)
(* nondeterministic choice.                                                *)
(***************************************************************************)
EXTENDS Integers, Sequences, FiniteSets

VARIABLES
    pc,                \* position of main(), or "api" when methods are called directly
    uploaded_file,     \* main: None or the audio file st.file_uploader returned
    file_path,         \* analyzer.file_path, held as the audio file it names (None: no instance)
    temp_exists,       \* the NamedTemporaryFile(delete=False) is on disk
    y,                 \* analyzer.y: None or the loaded sample buffer
    pitch_values,      \* analyzer.pitch_values: None or a sequence of Hz values
    speaker_segments,  \* analyzer.speaker_segments: None or [Masculino, Femenino]
    kmeans,            \* the KMeans object fitted by identify_speakers, None if never fitted
    tone_analysis,     \* main: result of analyze_tone_characteristics
    ret,               \* value returned by the last analyzer method called
    exc,               \* exception raised and not yet handled / last handled (None if none)
    report,            \* speakers whose st.write block has been emitted, in order
    plot_shown,        \* st.pyplot(fig) was called
    errors,            \* st.error messages emitted, in order
    escaped,           \* an exception left main()
    figures,           \* number of matplotlib figures created by plt.subplots
    calls              \* direct method calls made on the instance, in order

analyzer == <<y, pitch_values, speaker_segments>>

vars == <<pc, uploaded_file, file_path, temp_exists, y, pitch_values, speaker_segments,
          kmeans, tone_analysis, ret, exc, report, plot_shown, errors,
          escaped, figures, calls>>

\* Python's None.  Every value a field may hold besides None is a record too
\* (an array is wrapped as [array |-> <<...>>]), so the two always compare.
None == [none |-> TRUE]
Array(s) == [array |-> s]
Error(type) == [type |-> type]

\* ---------------------------------------------------------------- bounds

MaxLen == 4            \* longest pitch series extract_pitch yields
MaxInstanceLen == 2    \* longest pitch series in the instance-level specification
MaxCalls == 4          \* direct method calls in the instance-level specification

\* Pitch values (Hz) a voiced frame may take in the model.
PitchVals == {105, 110, 128, 130, 215, 220, 260}

PitchSeries(maxlen) == UNION {[1..n -> PitchVals] : n \in 0..maxlen}

\* An audio file, held as what the libraries make of it: whether librosa.load
\* decodes it and, if so, the voiced f0 values librosa.pyin finds in it (None
\* when pyin raises on the decoded buffer).
AudioFiles(maxlen) ==
    {[decodable |-> FALSE, f0 |-> None], [decodable |-> TRUE, f0 |-> None]}
    \cup {[decodable |-> TRUE, f0 |-> Array(s)] : s \in PitchSeries(maxlen)}

\* ------------------------------------------------------ program constants

n_speakers == 2
tol_inverse == 10000   \* KMeans default tol = 1e-4
max_iter == 300        \* KMeans default max_iter
BajoLimit == 110
BaritonoLimit == 130
ContraltoLimit == 220
MezzoLimit == 260

Speakers == <<"Masculino", "Femenino">>

\* ------------------------------------------------------- numeric helpers

RECURSIVE Sum(_)
Sum(s) == IF s = <<>> THEN 0 ELSE Head(s) + Sum(Tail(s))

RECURSIVE SumSq(_)
SumSq(s) == IF s = <<>> THEN 0 ELSE Head(s) * Head(s) + SumSq(Tail(s))

Range(s) == {s[i] : i \in DOMAIN s}

Min(s) == CHOOSE v \in Range(s) : \A w \in Range(s) : v <= w
Max(s) == CHOOSE v \in Range(s) : \A w \in Range(s) : v >= w

Abs(n) == IF n < 0 THEN -n ELSE n

\* Rationals <<num, den>>, den > 0.
RatLess(a, b) == a[1] * b[2] < b[1] * a[2]
RatLessInt(a, n) == a[1] < n * a[2]
RatEqInt(a, n) == a[1] = n * a[2]

\* np.mean of a non-empty array.
Mean(s) == <<Sum(s), Len(s)>>

\* np.std squared (population variance) of a non-empty array.
Variance(s) == <<Len(s) * SumSq(s) - Sum(s) * Sum(s), Len(s) * Len(s)>>

\* pitch_values[mask]: the samples whose label is k, in input order.
RECURSIVE Masked(_, _, _)
Masked(X, labels, k) ==
    IF X = <<>> THEN <<>>
    ELSE (IF Head(labels) = k THEN <<Head(X)>> ELSE <<>>)
         \o Masked(Tail(X), Tail(labels), k)

\* ------------------------------------------------- sklearn.cluster.KMeans

Clusters == {0, 1}

\* TRUE when sample x is strictly nearer to centre b than to centre a.
Nearer(x, b, a) == Abs(x * b[2] - b[1]) * a[2] < Abs(x * a[2] - a[1]) * b[2]

\* E-step: each sample takes the label of its nearest centre; on a tie the
\* lowest cluster index wins (the first minimum).
EStep(X, centers) ==
    [i \in DOMAIN X |-> IF Nearer(X[i], centers[1], centers[0]) THEN 1 ELSE 0]

\* The sample farthest from the centre it is assigned to: the one an empty
\* cluster is relocated to.
Farthest(X, labels, centers) ==
    CHOOSE i \in DOMAIN X : \A j \in DOMAIN X :
        ~ (Abs(X[i] * centers[labels[i]][2] - centers[labels[i]][1]) * centers[labels[j]][2]
           < Abs(X[j] * centers[labels[j]][2] - centers[labels[j]][1]) * centers[labels[i]][2])

\* M-step: each centre becomes the mean of its samples.  An empty cluster is
\* relocated to the farthest sample, which is taken away from its old cluster.
MStep(X, labels, centers) ==
    LET far == Farthest(X, labels, centers)
        empty == {k \in Clusters : Masked(X, labels, k) = <<>>}
    IN
    IF empty = {}
    THEN [k \in Clusters |-> Mean(Masked(X, labels, k))]
    ELSE [k \in Clusters |->
            IF k \in empty THEN <<X[far], 1>>
            ELSE <<Sum(X) - X[far], Len(X) - 1>>]

\* a/b <= c/d for naturals a, c and positive b, d, by comparing integer
\* parts and then the reciprocals of the remainders (no product is formed).
RECURSIVE FracLeq(_, _, _, _)
FracLeq(a, b, c, d) ==
    IF a \div b # c \div d THEN a \div b < c \div d
    ELSE IF a % b = 0 THEN TRUE
    ELSE IF c % d = 0 THEN FALSE
    ELSE FracLeq(d, c % d, b, a % b)

\* The convergence test on the centre shift:
\*   sum_k |centers_new[k] - centers[k]|^2 <= tol * mean(var(X)),
\* with the default tol = 1e-4 (tol_inverse is 1 / tol).
WithinTol(X, centers, centers_new) ==
    LET a(k) == Abs(centers_new[k][1] * centers[k][2] - centers[k][1] * centers_new[k][2])
        b(k) == centers[k][2] * centers_new[k][2]
        whole == (a(0) * a(0)) \div (b(0) * b(0)) + (a(1) * a(1)) \div (b(1) * b(1))
        part == ((a(0) * a(0)) % (b(0) * b(0))) * (b(1) * b(1))
                + ((a(1) * a(1)) % (b(1) * b(1))) * (b(0) * b(0))
        q == (b(0) * b(0)) * (b(1) * b(1))
        var == Variance(X)
        den == var[2] * tol_inverse
    IN  /\ whole <= var[1] \div den
        /\ FracLeq(part, q, var[1] - whole * den, den)

\* Lloyd's iterations from `centers`.  The loop ends on strict convergence
\* (labels unchanged), or when the centre shift is within the tolerance or
\* max_iter iterations have run; in the latter two cases the E-step is run
\* once more so that the labels match the returned centres.
RECURSIVE Lloyd(_, _, _, _)
Lloyd(X, centers, labels_old, iter) ==
    LET labels == EStep(X, centers)
        centers_new == MStep(X, labels, centers)
    IN  IF labels = labels_old
        THEN [labels_ |-> labels, cluster_centers_ |-> centers_new]
        ELSE IF WithinTol(X, centers, centers_new) \/ iter + 1 >= max_iter
        THEN [labels_ |-> EStep(X, centers_new), cluster_centers_ |-> centers_new]
        ELSE Lloyd(X, centers_new, labels, iter + 1)

\* k-means++ seeding with n_clusters = 2: the first centre is any sample; the
\* second is drawn with probability proportional to the squared distance to
\* the first, hence a sample of another value whenever one exists.  Which
\* samples the seeded random state picks depends on the data and on the
\* library version; every seeding is a possible one.
KMeansPlusPlus(X) ==
    {[k \in Clusters |-> <<c[k + 1], 1>>] :
        c \in {d \in Range(X) \X Range(X) :
                  d[1] # d[2] \/ Cardinality(Range(X)) = 1}}

\* KMeans(n_clusters=2, random_state=42).fit_predict(pitch_2d): the set of
\* fitted models the call may return.  The empty set stands for the
\* ValueError raised when there are fewer samples than clusters.
KMeansFit(X) ==
    IF Len(X) < n_speakers THEN {}
    ELSE {Lloyd(X, init, [i \in DOMAIN X |-> -1], 0) : init \in KMeansPlusPlus(X)}

\* The cluster indices left in the order KMeans numbered them.
argsort_unsorted(centroids) == <<0, 1>>

\* np.argsort(centroids) for two centroids (stable on a tie).
argsort(centroids) ==
    IF RatLess(centroids[1], centroids[0]) THEN <<1, 0>> ELSE <<0, 1>>

\* ------------------------------------------------------ VoiceToneAnalyzer

Raised(type, at) == [type |-> type, at |-> at]

\* SpeakerSegments with both keys selecting the first cluster of the order.
SpeakerSegments_same_cluster(pv, fit) ==
    LET speaker_order == argsort(fit.cluster_centers_)
    IN  [Masculino |-> Masked(pv, fit.labels_, speaker_order[1]),
         Femenino  |-> Masked(pv, fit.labels_, speaker_order[1])]

\* The dict built by identify_speakers from a fitted model: the cluster of
\* the smaller centroid under 'Masculino', the other under 'Femenino'.
SpeakerSegments(pv, fit) ==
    LET speaker_order == argsort(fit.cluster_centers_)
    IN  [Masculino |-> Masked(pv, fit.labels_, speaker_order[1]),
         Femenino  |-> Masked(pv, fit.labels_, speaker_order[2])]

\* identify_speakers without the guard on an empty pitch series.
identify_speakers_unguarded(pv, segs, km, fit) ==
    IF pv = None
    THEN [speaker_segments |-> segs, kmeans |-> km, ret |-> None, exc |-> Error("TypeError")]
    ELSE IF fit = None
    THEN [speaker_segments |-> segs, kmeans |-> [unfitted |-> TRUE], ret |-> None,
          exc |-> Error("ValueError")]
    ELSE [speaker_segments |-> SpeakerSegments(pv.array, fit), kmeans |-> fit,
          ret |-> SpeakerSegments(pv.array, fit), exc |-> None]

\* identify_speakers(): the fields it leaves, the value it returns and the
\* exception it raises.  `fit` is the fitted model KMeans returns, or None
\* when fit_predict raises (fewer samples than clusters).  len(None) raises
\* TypeError when extract_pitch has not run.
identify_speakers(pv, segs, km, fit) ==
    IF pv = None
    THEN [speaker_segments |-> segs, kmeans |-> km, ret |-> None, exc |-> Error("TypeError")]
    ELSE IF Len(pv.array) = 0
    THEN [speaker_segments |-> segs, kmeans |-> km, ret |-> None, exc |-> None]
    ELSE IF fit = None
    THEN [speaker_segments |-> segs, kmeans |-> [unfitted |-> TRUE], ret |-> None,
          exc |-> Error("ValueError")]
    ELSE [speaker_segments |-> SpeakerSegments(pv.array, fit), kmeans |-> fit,
          ret |-> SpeakerSegments(pv.array, fit), exc |-> None]

\* The fitted models identify_speakers may obtain for the series pv.
FitChoices(pv) ==
    IF pv = None THEN {None}
    ELSE IF KMeansFit(pv.array) = {} THEN {None}
    ELSE KMeansFit(pv.array)

\* tipo_voz with inclusive comparisons (<=) against the limits.
tipo_voz_inclusive(speaker, pitch_medio) ==
    IF speaker = "Masculino"
    THEN IF ~ RatLess(<<BajoLimit, 1>>, pitch_medio) THEN "Bajo"
         ELSE IF ~ RatLess(<<BaritonoLimit, 1>>, pitch_medio) THEN "Baritono"
         ELSE "Tenor"
    ELSE IF ~ RatLess(<<ContraltoLimit, 1>>, pitch_medio) THEN "Contralto"
         ELSE IF ~ RatLess(<<MezzoLimit, 1>>, pitch_medio) THEN "Mezzosoprano"
         ELSE "Soprano"

\* tipo_voz with the labels of the two upper male bins exchanged.
tipo_voz_swapped(speaker, pitch_medio) ==
    IF speaker = "Masculino"
    THEN IF RatLessInt(pitch_medio, BajoLimit) THEN "Bajo"
         ELSE IF RatLessInt(pitch_medio, BaritonoLimit) THEN "Tenor"
         ELSE "Baritono"
    ELSE IF RatLessInt(pitch_medio, ContraltoLimit) THEN "Contralto"
         ELSE IF RatLessInt(pitch_medio, MezzoLimit) THEN "Mezzosoprano"
         ELSE "Soprano"

\* The register label: strict comparisons of the mean against the limits.
tipo_voz(speaker, pitch_medio) ==
    IF speaker = "Masculino"
    THEN IF RatLessInt(pitch_medio, BajoLimit) THEN "Bajo"
         ELSE IF RatLessInt(pitch_medio, BaritonoLimit) THEN "Baritono"
         ELSE "Tenor"
    ELSE IF RatLessInt(pitch_medio, ContraltoLimit) THEN "Contralto"
         ELSE IF RatLessInt(pitch_medio, MezzoLimit) THEN "Mezzosoprano"
         ELSE "Soprano"

\* The range taken from the mean instead of the minimum.
rango_tonal_from_mean(pitches) == Max(pitches) - Sum(pitches) \div Len(pitches)

\* np.max(pitches) - np.min(pitches)
rango_tonal(pitches) == Max(pitches) - Min(pitches)

\* The stats dict of one speaker (pitch_std is held as its square).
ToneStats(speaker, pitches) ==
    [pitch_medio |-> Mean(pitches),
     pitch_std   |-> Variance(pitches),
     pitch_min   |-> Min(pitches),
     pitch_max   |-> Max(pitches),
     rango_tonal |-> rango_tonal(pitches),
     tipo_voz    |-> tipo_voz(speaker, Mean(pitches))]

\* analyze_tone_characteristics(): np.min of an empty group raises
\* ValueError (np.mean and np.std of it only warn and give nan).
analyze_tone_characteristics(segs) ==
    IF segs = None THEN [ret |-> None, exc |-> None]
    ELSE IF segs.Masculino = <<>> \/ segs.Femenino = <<>>
    THEN [ret |-> None, exc |-> Error("ValueError")]
    ELSE [ret |-> [Masculino |-> ToneStats("Masculino", segs.Masculino),
                   Femenino  |-> ToneStats("Femenino", segs.Femenino)],
          exc |-> None]

\* gaussian_kde(pitches) raises ValueError on fewer than two elements and
\* LinAlgError when the data have zero variance (singular covariance).
gaussian_kde(pitches) ==
    IF Len(pitches) < 2 THEN Error("ValueError")
    ELSE IF Cardinality(Range(pitches)) < 2 THEN Error("LinAlgError")
    ELSE None

\* plot_pitch_distribution without the guard on speaker_segments: the figure
\* is created, then None.items() raises AttributeError.
plot_pitch_distribution_unguarded(segs) ==
    IF segs = None
    THEN [ret |-> None, exc |-> Error("AttributeError"), figs |-> 1]
    ELSE IF gaussian_kde(segs.Masculino) # None
    THEN [ret |-> None, exc |-> gaussian_kde(segs.Masculino), figs |-> 1]
    ELSE IF gaussian_kde(segs.Femenino) # None
    THEN [ret |-> None, exc |-> gaussian_kde(segs.Femenino), figs |-> 1]
    ELSE [ret |-> [fig |-> TRUE], exc |-> None, figs |-> 1]

\* plot_pitch_distribution(): plt.subplots creates the figure before the
\* density of any group is estimated.
plot_pitch_distribution(segs) ==
    IF segs = None THEN [ret |-> None, exc |-> None, figs |-> 0]
    ELSE IF gaussian_kde(segs.Masculino) # None
    THEN [ret |-> None, exc |-> gaussian_kde(segs.Masculino), figs |-> 1]
    ELSE IF gaussian_kde(segs.Femenino) # None
    THEN [ret |-> None, exc |-> gaussian_kde(segs.Femenino), figs |-> 1]
    ELSE [ret |-> [fig |-> TRUE], exc |-> None, figs |-> 1]

\* ------------------------------------------------- analyzer method steps

\* VoiceToneAnalyzer.__init__: every field but file_path is None.
NewAnalyzer ==
    /\ y = None
    /\ pitch_values = None
    /\ speaker_segments = None

\* load_audio(): librosa.load decodes the file f at file_path or raises.  The
\* buffer is held as the f0 contour pyin finds in it.
DoLoadAudio(f) ==
    /\ y' = IF f.decodable THEN [f0 |-> f.f0] ELSE y
    /\ ret' = IF f.decodable THEN [duration |-> TRUE] ELSE None
    /\ exc' = IF f.decodable THEN None ELSE Raised("LoadError", "load_audio")
    /\ UNCHANGED <<pitch_values, speaker_segments, kmeans, figures>>

\* extract_pitch(): librosa.pyin over self.y, NaN frames dropped.  With no
\* buffer loaded (y is None) pyin raises; on a loaded buffer it yields the
\* voiced f0 values of the buffer, possibly none, or raises.
DoExtractPitch ==
    /\ LET f0 == IF y = None THEN None ELSE y.f0
       IN  /\ pitch_values' = IF f0 = None THEN pitch_values ELSE f0
           /\ ret' = f0
           /\ exc' = IF f0 = None THEN Raised("PitchError", "extract_pitch") ELSE None
    /\ UNCHANGED <<y, speaker_segments, kmeans, figures>>

DoIdentifySpeakers ==
    /\ \E fit \in FitChoices(pitch_values) :
         LET r == identify_speakers(pitch_values, speaker_segments, kmeans, fit)
         IN  /\ speaker_segments' = r.speaker_segments
             /\ kmeans' = r.kmeans
             /\ ret' = r.ret
             /\ exc' = IF r.exc = None THEN None
                       ELSE Raised(r.exc.type, "identify_speakers")
    /\ UNCHANGED <<y, pitch_values, figures>>

DoAnalyzeTone ==
    /\ LET r == analyze_tone_characteristics(speaker_segments)
       IN  /\ ret' = r.ret
           /\ exc' = IF r.exc = None THEN None
                     ELSE Raised(r.exc.type, "analyze_tone_characteristics")
    /\ UNCHANGED <<y, pitch_values, speaker_segments, kmeans, figures>>

DoPlot ==
    /\ LET r == plot_pitch_distribution(speaker_segments)
       IN  /\ ret' = r.ret
           /\ exc' = IF r.exc = None THEN None
                     ELSE Raised(r.exc.type, "plot_pitch_distribution")
           /\ figures' = figures + r.figs
    /\ UNCHANGED <<y, pitch_values, speaker_segments, kmeans>>

\* ------------------------------------------------------------------ main

ui == <<report, plot_shown, errors>>

Init ==
    /\ pc = "start"
    /\ uploaded_file = None
    /\ file_path = None
    /\ temp_exists = FALSE
    /\ NewAnalyzer
    /\ kmeans = None
    /\ tone_analysis = None
    /\ ret = None
    /\ exc = None
    /\ report = <<>>
    /\ plot_shown = FALSE
    /\ errors = <<>>
    /\ escaped = FALSE
    /\ figures = 0
    /\ calls = <<>>

\* st.file_uploader: a file was uploaded or not.
FileUploader ==
    /\ pc = "start"
    /\ \E up \in {None} \cup AudioFiles(MaxLen) :
         /\ uploaded_file' = up
         /\ pc' = IF up # None THEN "tmpfile" ELSE "done"
    /\ UNCHANGED <<file_path, temp_exists, analyzer, kmeans, tone_analysis, ret, exc, ui,
                   escaped, figures, calls>>

\* with tempfile.NamedTemporaryFile(delete=False) as tmp_file: write(...).
\* The block is outside the try statement: an OSError raised by the creation
\* or by the write leaves main(); after a failed write the file, created
\* with delete=False, stays on disk.
WriteTempFile ==
    /\ pc = "tmpfile"
    /\ \E outcome \in {"written", "create_failed", "write_failed"} :
         /\ temp_exists' = (outcome # "create_failed")
         /\ escaped' = (outcome # "written")
         /\ exc' = IF outcome = "written" THEN None ELSE Raised("OSError", outcome)
         /\ pc' = IF outcome = "written" THEN "load" ELSE "crashed"
    /\ UNCHANGED <<uploaded_file, file_path, analyzer, kmeans, tone_analysis,
                   ret, ui, figures, calls>>

\* analyzer = VoiceToneAnalyzer(temp_filename); duration = analyzer.load_audio()
LoadAudio ==
    /\ pc = "load"
    /\ NewAnalyzer
    /\ file_path' = uploaded_file
    /\ DoLoadAudio(uploaded_file)
    /\ pc' = IF exc' = None THEN "extract" ELSE "except"
    /\ UNCHANGED <<uploaded_file, temp_exists, tone_analysis, ui, escaped, calls>>

ExtractPitch ==
    /\ pc = "extract"
    /\ DoExtractPitch
    /\ pc' = IF exc' = None THEN "identify" ELSE "except"
    /\ UNCHANGED <<uploaded_file, file_path, temp_exists, tone_analysis, ui,
                   escaped, calls>>

IdentifySpeakers ==
    /\ pc = "identify"
    /\ DoIdentifySpeakers
    /\ pc' = IF exc' = None THEN "analyze" ELSE "except"
    /\ UNCHANGED <<uploaded_file, file_path, temp_exists, tone_analysis, ui,
                   escaped, calls>>

AnalyzeTone ==
    /\ pc = "analyze"
    /\ DoAnalyzeTone
    /\ tone_analysis' = ret'
    /\ pc' = IF exc' = None THEN "report" ELSE "except"
    /\ UNCHANGED <<uploaded_file, file_path, temp_exists, ui, escaped, calls>>

\* The st.write block of one speaker.
ReportEntry(speaker, analysis) ==
    [speaker |-> speaker,
     tipo_voz |-> analysis.tipo_voz,
     pitch_medio |-> analysis.pitch_medio,
     rango_tonal |-> analysis.rango_tonal]

\* if tone_analysis: the results of every speaker are written, in the order
\* of the dict; else: st.error("No se pudieron detectar voces ...").
ShowResults ==
    /\ pc = "report"
    /\ IF tone_analysis # None
       THEN /\ report' = [i \in 1..2 |->
                            ReportEntry(Speakers[i], tone_analysis[Speakers[i]])]
            /\ errors' = errors
            /\ pc' = "plot"
       ELSE /\ report' = report
            /\ errors' = Append(errors, "no_voices")
            /\ pc' = "finally"
    /\ UNCHANGED <<uploaded_file, file_path, temp_exists, analyzer, kmeans, tone_analysis,
                   ret, exc, plot_shown, escaped, figures, calls>>

\* fig = analyzer.plot_pitch_distribution(); if fig: st.pyplot(fig)
ShowPlot ==
    /\ pc = "plot"
    /\ DoPlot
    /\ plot_shown' = (ret' # None)
    /\ pc' = IF exc' = None THEN "finally" ELSE "except"
    /\ UNCHANGED <<uploaded_file, file_path, temp_exists, tone_analysis, report, errors,
                   escaped, calls>>

\* except Exception as e: st.error(f"Error al procesar el archivo: ...")
Except ==
    /\ pc = "except"
    /\ errors' = Append(errors, "processing_error")
    /\ pc' = "finally"
    /\ UNCHANGED <<uploaded_file, file_path, temp_exists, analyzer, kmeans, tone_analysis,
                   ret, exc, report, plot_shown, escaped, figures, calls>>

\* finally: os.unlink(temp_filename)
Finally ==
    /\ pc = "finally"
    /\ temp_exists' = FALSE
    /\ pc' = "done"
    /\ UNCHANGED <<uploaded_file, file_path, analyzer, kmeans, tone_analysis, ret,
                   exc, ui, escaped, figures, calls>>

Next ==
    \/ FileUploader
    \/ WriteTempFile
    \/ LoadAudio
    \/ ExtractPitch
    \/ IdentifySpeakers
    \/ AnalyzeTone
    \/ ShowResults
    \/ ShowPlot
    \/ Except
    \/ Finally

Spec == Init /\ [][Next]_vars

\* ------------------------------------- methods called on one instance

InitInstance ==
    /\ pc = "api"
    /\ uploaded_file = None
    /\ file_path \in AudioFiles(MaxInstanceLen)
    /\ temp_exists = FALSE
    /\ NewAnalyzer
    /\ kmeans = None
    /\ tone_analysis = None
    /\ ret = None
    /\ exc = None
    /\ report = <<>>
    /\ plot_shown = FALSE
    /\ errors = <<>>
    /\ escaped = FALSE
    /\ figures = 0
    /\ calls = <<>>

Call(method) ==
    /\ pc = "api"
    /\ Len(calls) < MaxCalls
    /\ calls' = Append(calls, method)
    /\ UNCHANGED <<pc, uploaded_file, file_path, temp_exists, tone_analysis, ui,
                   escaped>>

CallLoadAudio == Call("load_audio") /\ DoLoadAudio(file_path)
CallExtractPitch == Call("extract_pitch") /\ DoExtractPitch
CallIdentifySpeakers == Call("identify_speakers") /\ DoIdentifySpeakers
CallAnalyzeTone == Call("analyze_tone_characteristics") /\ DoAnalyzeTone
CallPlot == Call("plot_pitch_distribution") /\ DoPlot

NextInstance ==
    \/ CallLoadAudio
    \/ CallExtractPitch
    \/ CallIdentifySpeakers
    \/ CallAnalyzeTone
    \/ CallPlot

SpecInstance == InitInstance /\ [][NextInstance]_vars

\* ---------------------------------------------------------------- claims

Sexes == {"Masculino", "Femenino"}

\* The run of main() has ended: normally, or by an exception leaving it.
RunEnded == pc \in {"done", "crashed"}

\* The register the thresholds of the specification give a mean m = <<num, den>>.
Register(sex, m) ==
    IF sex = "Masculino"
    THEN IF m[1] < 110 * m[2] THEN "Bajo"
         ELSE IF m[1] < 130 * m[2] THEN "Baritono" ELSE "Tenor"
    ELSE IF m[1] < 220 * m[2] THEN "Contralto"
         ELSE IF m[1] < 260 * m[2] THEN "Mezzosoprano" ELSE "Soprano"

MeanIs(sex, hz) == RatEqInt(Mean(speaker_segments[sex]), hz)

\* C1: every analysed group carries exactly the register its sex label and
\* its own mean pitch give under the ordered thresholds (Male: < 110 Bajo,
\* < 130 Baritono, else Tenor; Female: < 220 Contralto, < 260 Mezzosoprano,
\* else Soprano); in particular Male 105 -> Bajo, 128 -> Baritono,
\* 130 -> Tenor, Female 215 -> Contralto, 260 -> Soprano.
C1_RegisterLabel ==
    tone_analysis # None =>
        /\ \A s \in Sexes :
             /\ tone_analysis[s].pitch_medio = Mean(speaker_segments[s])
             /\ tone_analysis[s].tipo_voz = Register(s, Mean(speaker_segments[s]))
        /\ MeanIs("Masculino", 105) => tone_analysis.Masculino.tipo_voz = "Bajo"
        /\ MeanIs("Masculino", 128) => tone_analysis.Masculino.tipo_voz = "Baritono"
        /\ MeanIs("Masculino", 130) => tone_analysis.Masculino.tipo_voz = "Tenor"
        /\ MeanIs("Femenino", 215) => tone_analysis.Femenino.tipo_voz = "Contralto"
        /\ MeanIs("Femenino", 260) => tone_analysis.Femenino.tipo_voz = "Soprano"

C1_Witness ==
    /\ tone_analysis # None
    /\ MeanIs("Masculino", 128) /\ tone_analysis.Masculino.tipo_voz = "Baritono"
    /\ MeanIs("Femenino", 215) /\ tone_analysis.Femenino.tipo_voz = "Contralto"

\* C2 as stated: a mean exactly on a threshold takes the label of the bin
\* below that threshold.
C2_LowerBin ==
    tone_analysis # None =>
        /\ MeanIs("Masculino", 110) => tone_analysis.Masculino.tipo_voz = "Bajo"
        /\ MeanIs("Masculino", 130) => tone_analysis.Masculino.tipo_voz = "Baritono"
        /\ MeanIs("Femenino", 220) => tone_analysis.Femenino.tipo_voz = "Contralto"
        /\ MeanIs("Femenino", 260) => tone_analysis.Femenino.tipo_voz = "Mezzosoprano"

\* C2 amended: a mean exactly on a threshold takes the label of the bin
\* above that threshold (110 -> Baritono, 130 -> Tenor, 220 -> Mezzosoprano,
\* 260 -> Soprano).
C2_UpperBin ==
    tone_analysis # None =>
        /\ MeanIs("Masculino", 110) => tone_analysis.Masculino.tipo_voz = "Baritono"
        /\ MeanIs("Masculino", 130) => tone_analysis.Masculino.tipo_voz = "Tenor"
        /\ MeanIs("Femenino", 220) => tone_analysis.Femenino.tipo_voz = "Mezzosoprano"
        /\ MeanIs("Femenino", 260) => tone_analysis.Femenino.tipo_voz = "Soprano"

C2_Witness ==
    /\ tone_analysis # None
    /\ MeanIs("Masculino", 110) /\ tone_analysis.Masculino.tipo_voz = "Baritono"
    /\ MeanIs("Femenino", 220) /\ tone_analysis.Femenino.tipo_voz = "Mezzosoprano"

DistinctValues(pv) == Cardinality(Range(pv.array))

\* C3: for a series with at least two distinct values, after
\* identify_speakers Masculino is the cluster of the smaller centroid and
\* Femenino that of the larger one, both are non-empty, and the mean of
\* Masculino is not greater than the mean of Femenino.
C3_MaleIsLowerCluster ==
    (speaker_segments # None /\ DistinctValues(pitch_values) >= 2) =>
        /\ \E k \in Clusters :
             /\ speaker_segments.Masculino
                    = Masked(pitch_values.array, kmeans.labels_, k)
             /\ speaker_segments.Femenino
                    = Masked(pitch_values.array, kmeans.labels_, 1 - k)
             /\ ~ RatLess(kmeans.cluster_centers_[1 - k], kmeans.cluster_centers_[k])
        /\ speaker_segments.Masculino # <<>>
        /\ speaker_segments.Femenino # <<>>
        /\ ~ RatLess(Mean(speaker_segments.Femenino), Mean(speaker_segments.Masculino))

\* KMeans numbered the higher cluster 0, so the order had to be reversed.
C3_Witness ==
    /\ speaker_segments # None
    /\ DistinctValues(pitch_values) >= 2
    /\ RatLess(kmeans.cluster_centers_[1], kmeans.cluster_centers_[0])
    /\ RatLess(Mean(speaker_segments.Masculino), Mean(speaker_segments.Femenino))

\* C4: on an empty pitch series identify_speakers returns None without
\* fitting KMeans, analyze_tone_characteristics returns None, and the run
\* ends with the single 'no voices detected' message: no exception is
\* raised and none leaves main().
C4_EmptySeries ==
    pitch_values = Array(<<>>) =>
        /\ kmeans = None
        /\ speaker_segments = None
        /\ exc = None
        /\ ~ escaped
        /\ pc \notin {"except", "crashed", "plot"}
        /\ pc = "analyze" => ret = None
        /\ pc = "report" => (ret = None /\ tone_analysis = None)
        /\ pc \in {"finally", "done"} =>
             (errors = <<"no_voices">> /\ report = <<>> /\ ~ plot_shown)

C4_Witness ==
    /\ pc = "done"
    /\ pitch_values = Array(<<>>)
    /\ errors = <<"no_voices">>

\* C5 as stated: when a run of main() with an uploaded file has ended, by
\* completion or by a failure at any step, the temporary file is gone.
C5_TempFileRemoved ==
    (RunEnded /\ uploaded_file # None) => ~ temp_exists

PlotFailed == exc # None /\ exc.at = "plot_pitch_distribution"

\* C6 as stated: a failure while rendering the plot degrades to 'no plot':
\* the textual report is complete and the run shows no error.
C6_PlotFailureDegrades ==
    (pc = "done" /\ PlotFailed) => (Len(report) = 2 /\ errors = <<>>)

\* C7 as stated: a run of main() with an uploaded file ends either with the
\* complete report and no error, or with exactly one error message, and no
\* exception leaves main().
C7_ReportOrSingleError ==
    (RunEnded /\ uploaded_file # None) =>
        /\ ~ escaped
        /\ Len(errors) <= 1
        /\ Len(errors) = 0 => Len(report) = 2

Count(v, seq) == Cardinality({i \in DOMAIN seq : seq[i] = v})

\* C8: after identify_speakers succeeds, the two groups partition the input:
\* every sample of the series is in exactly one of Masculino and Femenino
\* (as multisets, Masculino + Femenino = pitch_values) and each group holds
\* only samples of the series.
C8_Partition ==
    speaker_segments # None =>
        /\ \A v \in PitchVals :
             Count(v, speaker_segments.Masculino) + Count(v, speaker_segments.Femenino)
                 = Count(v, pitch_values.array)
        /\ Len(speaker_segments.Masculino) + Len(speaker_segments.Femenino)
               = Len(pitch_values.array)
        /\ Range(speaker_segments.Masculino) \subseteq Range(pitch_values.array)
        /\ Range(speaker_segments.Femenino) \subseteq Range(pitch_values.array)

C8_Witness ==
    /\ speaker_segments # None
    /\ Len(speaker_segments.Masculino) >= 2
    /\ Len(speaker_segments.Femenino) >= 1
    /\ \E v \in PitchVals : Count(v, pitch_values.array) >= 2

\* C9: the statistics of every group satisfy range = max - min, with min and
\* max the reported minimum and maximum of that same group, so the range is
\* never negative.
C9_RangeIsMaxMinusMin ==
    tone_analysis # None =>
        \A s \in Sexes :
            /\ tone_analysis[s].rango_tonal
                   = tone_analysis[s].pitch_max - tone_analysis[s].pitch_min
            /\ tone_analysis[s].rango_tonal >= 0
            /\ \A i \in DOMAIN speaker_segments[s] :
                   /\ tone_analysis[s].pitch_min <= speaker_segments[s][i]
                   /\ speaker_segments[s][i] <= tone_analysis[s].pitch_max
            /\ tone_analysis[s].pitch_min \in Range(speaker_segments[s])
            /\ tone_analysis[s].pitch_max \in Range(speaker_segments[s])

C9_Witness ==
    /\ tone_analysis # None
    /\ tone_analysis.Masculino.rango_tonal > 0
    /\ tone_analysis.Femenino.rango_tonal > 0

LastCall == calls[Len(calls)]

\* C10: on one instance speaker_segments is None at construction and stays
\* None until identify_speakers runs on a non-empty series; identify_speakers
\* on an empty series returns None and leaves it unchanged; and while it is
\* None, analyze_tone_characteristics and plot_pitch_distribution return
\* None, raise nothing, create no figure and change no field.
C10_NoneUntilIdentified ==
    /\ speaker_segments = None
    /\ [][ /\ (speaker_segments = None /\ speaker_segments' # None) =>
                 /\ LastCall' = "identify_speakers"
                 /\ pitch_values # None
                 /\ Len(pitch_values.array) > 0
           /\ (LastCall' = "identify_speakers" /\ pitch_values = Array(<<>>)) =>
                 /\ ret' = None
                 /\ exc' = None
                 /\ UNCHANGED <<file_path, analyzer, kmeans, figures>>
           /\ (speaker_segments = None
               /\ LastCall' \in {"analyze_tone_characteristics",
                                 "plot_pitch_distribution"}) =>
                 /\ ret' = None
                 /\ exc' = None
                 /\ UNCHANGED <<file_path, analyzer, kmeans, figures>>
         ]_vars

C10_Witness ==
    /\ calls = <<"load_audio", "extract_pitch", "identify_speakers",
                 "plot_pitch_distribution">>
    /\ pitch_values = Array(<<>>)
    /\ speaker_segments = None
    /\ ret = None
    /\ exc = None
    /\ figures = 0

====
